---- MODULE Spec2Model ----
(***************************************************************************)
(* State-machine model of tf2_bot_detector/WorldState.cpp: the session     *)
(* model (player table, lobby slots), the console-line handlers, the two   *)
(* batched enrichment queues (player summaries, player bans) and the       *)
(* friends-list cache.                                                     *)
(***************************************************************************)
EXTENDS Integers, Sequences, FiniteSets, TLC

\* ------------------------------------------------------------------ bounds
MaxIds == 1             \* identifiers 1..MaxIds of the enrichment-queue machine
MaxBatchIds == 250      \* identifiers 1..MaxBatchIds of the batch machine
MaxPlayers == 2         \* identifiers 1..MaxPlayers of the lobby and session machines
MaxSlots == 2           \* largest lobby (confirmed + pending) a header declares
MaxClock == 24          \* wall clock (minutes) stops advancing here
ClockStart == 10        \* wall clock at construction (far from the epoch)
MaxTime == 2            \* log timestamps 1..MaxTime (seconds)
MaxConn == 3            \* connection times 0..MaxConn (seconds)
MaxKills == 2           \* kill notifications handled per session
MaxChunk == 4           \* characters in a console output chunk

\* ------------------------------------------------------- program constants
BatchCap == 100         \* Take100: at most 100 identifiers per request
FriendsInterval == 5    \* UpdateFriends: 5min
JitterWindow == 2       \* PlayerStatus: delta < 2s && delta > -2s

Ids == 1..MaxIds
BatchIds == 1..MaxBatchIds
PlayerIds == 1..MaxPlayers
SmallIds == Ids \cup PlayerIds
Universe == BatchIds \cup SmallIds
QueueKinds == {"summary", "bans"}
Names == {"a", "b"}
Values == {1}           \* payloads an enrichment response can carry

Min(a, b) == IF a < b THEN a ELSE b
Max(a, b) == IF a > b THEN a ELSE b
Range(s) == {s[i] : i \in 1..Len(s)}
\* The one element of a singleton; The({F(v) : v \in {e}}) is F(e) with e
\* evaluated once.
The(S) == CHOOSE x \in S : TRUE

VARIABLES
  settings,         \* m_Settings: [client, key, lazy]
  players,          \* m_CurrentPlayerData: identifier -> PlayerExtraData
  curMembers,       \* m_CurrentLobbyMembers
  pendMembers,      \* m_PendingLobbyMembers
  queued,           \* m_Queued of m_PlayerSummaryUpdates / m_PlayerBansUpdates
  inflight,         \* m_ResponseFuture of each queue
  friends,          \* m_Friends
  friendsFuture,    \* m_FriendsFuture
  lastFriendsUpdate,\* m_LastFriendsUpdate
  now,              \* clock_t::now(), minutes
  curTime,          \* m_CurrentTimestamp, seconds
  isInit,           \* m_IsLocalPlayerInitialized
  voteInProgress,   \* m_IsVoteInProgress
  worldLastStatus,  \* WorldState::m_LastStatusUpdateTime
  last,             \* history: the operation of the last step and its inputs
  hist              \* history: observations the properties refer to

vars == <<settings, players, curMembers, pendMembers, queued, inflight, friends,
          friendsFuture, lastFriendsUpdate, now, curTime, isInit, voteInProgress,
          worldLastStatus, last, hist>>

\* ------------------------------------------------------------ player record
\* A constructor that leaves the status snapshot's identifier unset.
NewStatusUnset(id) ==
  [steamID |-> 0, name |-> "", state |-> "Invalid", connTime |-> 0, ping |-> 0]

\* PlayerStatus{} as the constructor leaves it, with m_SteamID = id.
NewStatus(id) ==
  [steamID |-> id, name |-> "", state |-> "Invalid", connTime |-> 0, ping |-> 0]

\* The members of a PlayerExtraData before the constructor body runs.
\* m_TF2Playtime is "none" (no shared state), "pending", "ok" or "fail";
\* playtimeRequests is history: the calls of GetTF2PlaytimeAsync made for it.
NewPlayerData(id) ==
  [status |-> NewStatus(id), clientIndex |-> 0, team |-> "Unknown",
   kills |-> 0, deaths |-> 0, localKills |-> 0, localDeaths |-> 0,
   lastStatusUpdate |-> 0, lastPingUpdate |-> 0, activeBegin |-> 0,
   summary |-> 0, bans |-> 0, playtimeFetched |-> FALSE, playtime |-> "none",
   playtimeRequests |-> 0]

\* The part of the state the handlers thread through their calls:
\* [players, queued, inflight, hist, batch, done]; batch is what each queue
\* sent during the current handler, done the completion each queue consumed.
\* BatchedAction::Queue: insert into the pending set.
Queue(st, q, id) == [st EXCEPT !.queued[q] = @ \cup {id}]

\* A slot read that queues the identifier whatever the slot holds.
GetEnrichmentAlwaysQueues(st, q, id, p) == Queue(st, q, id)

\* GetPlayerSummary / GetPlayerBans on the record p of identifier id: a
\* populated slot is returned, an empty one queues the identifier.
SlotOf(q) == IF q = "summary" THEN "summary" ELSE "bans"
GetEnrichment(st, q, id, p) ==
  IF p[SlotOf(q)] # 0 THEN st ELSE Queue(st, q, id)

\* GetTF2Playtime on record p: the request is issued once, when a credential
\* and a client are configured; the returned p has the flag and the future set.
GetTF2PlaytimeIssue(p) ==
  IF ~p.playtimeFetched /\ settings.key /\ settings.client
    THEN [p EXCEPT !.playtimeFetched = TRUE, !.playtime = "pending",
                   !.playtimeRequests = @ + 1]
    ELSE p

\* A GetTF2Playtime whose catch block makes the record eligible to fetch again.
GetTF2PlaytimeRetries(p) ==
  LET p1 == GetTF2PlaytimeIssue(p)
  IN IF p1.playtime = "ok" THEN [record |-> p1, result |-> 1, caught |-> FALSE]
     ELSE IF p1.playtime = "fail"
       THEN [record |-> [p1 EXCEPT !.playtime = "none", !.playtimeFetched = FALSE],
             result |-> 0, caught |-> TRUE]
     ELSE [record |-> p1, result |-> 0, caught |-> FALSE]

\* PlayerExtraData::GetTF2Playtime: issue if eligible; a ready future gives
\* its value (1), or throws, and then the catch block resets the future; in
\* every other case the result is "not yet available" (0). A future with no
\* shared state is not ready.
GetTF2Playtime(p) ==
  LET p1 == GetTF2PlaytimeIssue(p)
  IN IF p1.playtime = "ok" THEN [record |-> p1, result |-> 1, caught |-> FALSE]
     ELSE IF p1.playtime = "fail"
       THEN [record |-> [p1 EXCEPT !.playtime = "none"], result |-> 0, caught |-> TRUE]
     ELSE [record |-> p1, result |-> 0, caught |-> FALSE]

\* PlayerExtraData::PlayerExtraData followed by the emplace of FindOrCreatePlayer.
PlayerExtraData(st, id) ==
  LET p0 == NewPlayerData(id)
      st1 == IF ~settings.lazy
               THEN GetEnrichment(GetEnrichment(st, "summary", id, p0), "bans", id, p0)
               ELSE st
      p1 == IF ~settings.lazy THEN GetTF2PlaytimeIssue(p0) ELSE p0
  IN [st1 EXCEPT !.players = [x \in DOMAIN st1.players \cup {id} |->
                                IF x = id THEN p1 ELSE st1.players[x]]]

\* WorldState::FindOrCreatePlayer: the state in which players[id] exists.
FindOrCreatePlayer(st, id) ==
  IF id \in DOMAIN st.players THEN st ELSE PlayerExtraData(st, id)

\* ------------------------------------------------------ enrichment queues
NoFuture == [status |-> "none", ids |-> <<>>, resp |-> <<>>, val |-> 0]
NoBatch == [ids |-> <<>>, before |-> {}, after |-> {}]
NoDone == [outcome |-> "none", ids |-> <<>>, resp |-> <<>>, val |-> 0,
           before |-> {}, after |-> {}, slotsBefore |-> <<>>, slotsAfter |-> <<>>]
Slots(table) == [x \in DOMAIN table |-> <<table[x].summary, table[x].bans>>]

\* Iteration order of the pending collection: the identifiers it holds, in
\* one of the orders the container may walk them.
Orders == {"asc", "desc"}
OrderSeq(n, ord) == [i \in 1..n |-> IF ord = "asc" THEN i ELSE n + 1 - i]
Iteration(collection, ord) ==
  LET n == Cardinality(IF collection \subseteq SmallIds THEN SmallIds ELSE Universe)
  IN SelectSeq(OrderSeq(n, ord), LAMBDA x : x \in collection)

\* A Take100 whose size test is off by one.
Take100OffByOne(collection, ord) ==
  The({[i \in 1..Cardinality({j \in 1..Len(seq) : ~(j - 1 > BatchCap)}) |-> seq[i]] :
         seq \in {Iteration(collection, ord)}})

\* Take100: walk the collection; the i-th identifier walked is pushed unless
\* the vector, which then holds i - 1, already holds 100 (the break).
Take100(collection, ord) ==
  The({[i \in 1..Cardinality({j \in 1..Len(seq) : ~(j - 1 >= BatchCap)}) |-> seq[i]] :
         seq \in {Iteration(collection, ord)}})

\* PlayerSummaryUpdateAction::SendRequest / PlayerBansUpdateAction::SendRequest:
\* an invalid future without a client or a credential, else the batch request.
\* The collection is passed by reference: the result carries it back.
SendRequest(collection, ord) ==
  IF ~settings.client THEN [fut |-> NoFuture, collection |-> collection]
  ELSE IF ~settings.key THEN [fut |-> NoFuture, collection |-> collection]
  ELSE [fut |-> [status |-> "pending", ids |-> Take100(collection, ord),
                 resp |-> <<>>, val |-> 0],
        collection |-> collection]

\* An OnDataReady that clears the whole pending set after merging.
OnDataReadyClearAll(st, q, response, val) ==
  [st EXCEPT !.queued[q] = {}]

\* OnDataReady of either queue: for each returned entry, find-or-create the
\* record, store the entry in its slot, erase the identifier from the set.
\* The entries name distinct identifiers, so the loop's result is each
\* entry's effect taken on its own: EntryState(st, id) is the state after
\* the find-or-create of one entry, which queues nothing when the record exists.
EntryState(st, id) == FindOrCreatePlayer(st, id)
Merge(st, q, returned, val) ==
  [st EXCEPT
     !.players = [x \in DOMAIN st.players \cup returned |->
                    IF x \in returned
                      THEN [EntryState(st, x).players[x] EXCEPT ![SlotOf(q)] = val]
                      ELSE st.players[x]],
     !.queued = [k \in QueueKinds |->
                   (st.queued[k] \cup UNION {EntryState(st, x).queued[k] :
                                               x \in returned \ DOMAIN st.players})
                     \ (IF k = q THEN returned ELSE {})]]
\* An OnDataReady that stores an entry only in a record that exists.
OnDataReadySkipsMissing(st, q, response, val) ==
  Merge(st, q, Range(response) \cap DOMAIN st.players, val)

\* An OnDataReady that stores the entries and erases nothing.
OnDataReadyKeepsPending(st, q, response, val) ==
  [Merge(st, q, Range(response), val) EXCEPT !.queued[q] = st.queued[q]]

OnDataReady(st, q, response, val) ==
  The({Merge(st, q, returned, val) : returned \in {Range(response)}})

\* What BatchedAction::Update does with the result r of SendRequest, with the
\* state `merged` OnDataReady leaves, and with a failed future f.
Sent(st, q, r) ==
  IF r.fut.status = "none" THEN [st EXCEPT !.queued[q] = r.collection]
  ELSE [st EXCEPT !.inflight[q] = r.fut,
                  !.queued[q] = r.collection,
                  !.hist.outstanding[q] = @ + 1,
                  !.batch[q] = [ids |-> r.fut.ids, before |-> st.queued[q],
                                after |-> r.collection]]
Consumed(st, q, f, merged) ==
  [merged EXCEPT
     !.inflight[q] = NoFuture, !.hist.outstanding[q] = @ - 1,
     !.done[q] = [outcome |-> f.status, ids |-> f.ids, resp |-> f.resp, val |-> f.val,
                  before |-> st.queued[q], after |-> merged.queued[q],
                  slotsBefore |-> Slots(st.players),
                  slotsAfter |-> Slots(merged.players)]]

\* A BatchedAction::Update that sends without looking at the in-flight slot.
BatchedUpdateNoGuard(st, q, ord) ==
  IF st.inflight[q].status \in {"none", "pending"} THEN
    IF st.queued[q] # {}
      THEN The({Sent(st, q, r) : r \in {SendRequest(st.queued[q], ord)}})
      ELSE st
  ELSE [st EXCEPT !.inflight[q] = NoFuture, !.hist.outstanding[q] = @ - 1]

\* BatchedAction::Update for queue q: with no request in flight and a
\* non-empty pending set, send one; with a completed request, merge it (a
\* failure is caught: nothing is merged) and clear the slot.
BatchedUpdate(st, q, ord) ==
  IF st.inflight[q].status = "none" THEN
    IF st.queued[q] # {}
      THEN The({Sent(st, q, r) : r \in {SendRequest(st.queued[q], ord)}})
      ELSE st
  ELSE IF st.inflight[q].status = "ok" THEN
    The({Consumed(st, q, st.inflight[q], merged) :
           merged \in {OnDataReady(st, q, st.inflight[q].resp, st.inflight[q].val)}})
  ELSE IF st.inflight[q].status = "fail" THEN
    Consumed(st, q, st.inflight[q], st)
  ELSE st

\* ----------------------------------------------------------- friends list
\* A fetch condition that lets the fetch go out when exactly 5 minutes
\* have passed.
FriendsIssueAtFive ==
  settings.client /\ settings.key /\ (now - FriendsInterval) >= lastFriendsUpdate

\* WorldState::UpdateFriends, the condition of the fetch: a client, a
\* non-empty credential, and the last fetch more than 5 minutes old.
FriendsIssue ==
  settings.client /\ settings.key /\ (now - FriendsInterval) > lastFriendsUpdate

\* The future UpdateFriends polls: the new fetch if one was issued.
FriendsPolled ==
  IF FriendsIssue THEN [status |-> "pending", val |-> {}] ELSE friendsFuture

\* The catch clauses around m_FriendsFuture.get(): http_error (401 or not),
\* then std::exception.
FriendsCaught(outcome) ==
  \/ outcome \in {"http401", "http"}
  \/ outcome = "error"
FriendsEscapes == FriendsPolled.status \notin {"none", "pending", "ok"}
                  /\ ~FriendsCaught(FriendsPolled.status)

\* An UpdateFriends that drops the snapshot when the fetch failed.
UpdateFriendsDropOnFailure ==
  /\ lastFriendsUpdate' = IF FriendsIssue THEN now ELSE lastFriendsUpdate
  /\ friends' = IF FriendsPolled.status = "ok" THEN FriendsPolled.val
                ELSE IF FriendsPolled.status \in {"none", "pending"} THEN friends
                ELSE {}
  /\ friendsFuture' = IF FriendsPolled.status \in {"none", "pending"}
                        THEN FriendsPolled
                        ELSE [status |-> "none", val |-> {}]

\* WorldState::UpdateFriends: issue a fetch if due; then consume a completed
\* fetch, keeping the old snapshot on any failure.
UpdateFriends ==
  /\ lastFriendsUpdate' = IF FriendsIssue THEN now ELSE lastFriendsUpdate
  /\ friends' = IF FriendsPolled.status = "ok" THEN FriendsPolled.val ELSE friends
  /\ friendsFuture' = IF FriendsPolled.status \in {"none", "pending"}
                        THEN FriendsPolled
                        ELSE [status |-> "none", val |-> {}]

\* PlayerExtraData::IsFriend: membership in the cached snapshot.
IsFriend(id) == id \in friends

\* -------------------------------------------------------------------- tick
St == [players |-> players, queued |-> queued, inflight |-> inflight, hist |-> hist,
       batch |-> [q \in QueueKinds |-> NoBatch],
       done |-> [q \in QueueKinds |-> NoDone]]
Op(name) == [op |-> name]

\* WorldState::Update: the summaries queue, the bans queue, the friends list.
Update ==
  \E ordS \in Orders, ordB \in Orders :
  \E st1 \in {BatchedUpdate(St, "summary", ordS)} :
  \E st2 \in {BatchedUpdate(st1, "bans", ordB)} :
    /\ players' = st2.players
    /\ queued' = st2.queued
    /\ inflight' = st2.inflight
    /\ UpdateFriends
    /\ hist' = [st2.hist EXCEPT !.lastIssue = IF FriendsIssue THEN now ELSE @]
    /\ last' = [op |-> "Update", batch |-> st2.batch, done |-> st2.done,
                friendsIssued |-> FriendsIssue, prevIssue |-> hist.lastIssue,
                friendsPolled |-> FriendsPolled, escaped |-> FriendsEscapes]
    /\ UNCHANGED <<settings, curMembers, pendMembers, now, curTime, isInit,
                   voteInProgress, worldLastStatus>>

\* ------------------------------------------------- the network's side
\* The HTTP collaborator completes the request of queue q: successfully with
\* the entries of the identifiers in `returned` (an omitted identifier has
\* no entry), or with a failure.
NetSucceed(q, returned, val) ==
  /\ inflight[q].status = "pending"
  /\ returned \subseteq Range(inflight[q].ids)
  /\ inflight' = [inflight EXCEPT ![q] =
        [@ EXCEPT !.status = "ok", !.val = val,
                  !.resp = SelectSeq(inflight[q].ids, LAMBDA x : x \in returned)]]
  /\ last' = Op("NetSucceed")
  /\ UNCHANGED <<settings, players, curMembers, pendMembers, queued, friends,
                 friendsFuture, lastFriendsUpdate, now, curTime, isInit,
                 voteInProgress, worldLastStatus, hist>>

NetFail(q) ==
  /\ inflight[q].status = "pending"
  /\ inflight' = [inflight EXCEPT ![q] = [@ EXCEPT !.status = "fail"]]
  /\ last' = Op("NetFail")
  /\ UNCHANGED <<settings, players, curMembers, pendMembers, queued, friends,
                 friendsFuture, lastFriendsUpdate, now, curTime, isInit,
                 voteInProgress, worldLastStatus, hist>>

\* The friends-list fetch completes: a snapshot, or one of the failures.
FriendsOutcomes == {"ok", "http401", "http", "error"}
NetFriends(outcome, snapshot) ==
  /\ friendsFuture.status = "pending"
  /\ friendsFuture' = [status |-> outcome,
                       val |-> IF outcome = "ok" THEN snapshot ELSE {}]
  /\ last' = Op("NetFriends")
  /\ UNCHANGED <<settings, players, curMembers, pendMembers, queued, inflight,
                 friends, lastFriendsUpdate, now, curTime, isInit,
                 voteInProgress, worldLastStatus, hist>>

\* Wall-clock time passes.
AdvanceClock(d) ==
  /\ now + d <= MaxClock
  /\ now' = now + d
  /\ last' = Op("AdvanceClock")
  /\ UNCHANGED <<settings, players, curMembers, pendMembers, queued, inflight,
                 friends, friendsFuture, lastFriendsUpdate, curTime, isInit,
                 voteInProgress, worldLastStatus, hist>>

\* The log's timestamp moves (UpdateTimestamp).
UpdateTimestamp(t) ==
  /\ t # curTime
  /\ curTime' = t
  /\ last' = Op("UpdateTimestamp")
  /\ UNCHANGED <<settings, players, curMembers, pendMembers, queued, inflight,
                 friends, friendsFuture, lastFriendsUpdate, now, isInit,
                 voteInProgress, worldLastStatus, hist>>

\* The user changes the HTTP client, the credential or the lazy-load option.
SetSettings(s) ==
  /\ s # settings
  /\ settings' = s
  /\ last' = Op("SetSettings")
  /\ UNCHANGED <<players, curMembers, pendMembers, queued, inflight, friends,
                 friendsFuture, lastFriendsUpdate, now, curTime, isInit,
                 voteInProgress, worldLastStatus, hist>>

\* A consumer reads the summary or ban slot of an existing record.
ReadEnrichment(q, id) ==
  /\ id \in DOMAIN players
  /\ LET st1 == GetEnrichment(St, q, id, players[id])
     IN /\ queued' = st1.queued
        /\ hist' = st1.hist
        /\ last' = [op |-> "ReadEnrichment", q |-> q, id |-> id,
                    result |-> players[id][SlotOf(q)]]
  /\ UNCHANGED <<settings, players, curMembers, pendMembers, inflight, friends,
                 friendsFuture, lastFriendsUpdate, now, curTime, isInit,
                 voteInProgress, worldLastStatus>>

\* A consumer reads the playtime slot of an existing record.
ReadPlaytime(id) ==
  /\ id \in DOMAIN players
  /\ LET r == GetTF2Playtime(players[id])
     IN /\ players' = [players EXCEPT ![id] = r.record]
        /\ last' = [op |-> "GetTF2Playtime", id |-> id, result |-> r.result,
                    caught |-> r.caught]
  /\ UNCHANGED <<settings, curMembers, pendMembers, queued, inflight, friends,
                 friendsFuture, lastFriendsUpdate, now, curTime, isInit,
                 voteInProgress, worldLastStatus, hist>>

\* The HTTP collaborator completes the playtime request of a record.
PlaytimeOutcomes == {"ok", "fail"}
NetPlaytime(id, outcome) ==
  /\ id \in DOMAIN players
  /\ players[id].playtime = "pending"
  /\ players' = [players EXCEPT ![id].playtime = outcome]
  /\ last' = Op("NetPlaytime")
  /\ UNCHANGED <<settings, curMembers, pendMembers, queued, inflight, friends,
                 friendsFuture, lastFriendsUpdate, now, curTime, isInit,
                 voteInProgress, worldLastStatus, hist>>

\* ---------------------------------------------------------- lobby queries
\* LobbyMember{}: the default-constructed, invalid slot.
NoMember == [index |-> 0, id |-> 0, team |-> "Invaders", pending |-> FALSE]
IsValid(member) == member.id # 0
Teams == {"Invaders", "Defenders"}

\* std::vector::resize: keep the first n, pad with default-constructed slots.
Resize(vec, n) == [i \in 1..n |-> IF i <= Len(vec) THEN vec[i] ELSE NoMember]

\* WorldState::GetLobbyMembers: the identifiers yielded, in order, and whether
\* the walk ended with "Missing player for lobby member!".
RECURSIVE GetLobbyMembersLoop(_, _, _)
GetLobbyMembersLoop(members, i, out) ==
  IF i > Len(members) THEN [yielded |-> out, threw |-> FALSE]
  ELSE LET member == members[i] IN
    IF ~IsValid(member) THEN GetLobbyMembersLoop(members, i + 1, out)
    ELSE IF member.pending
            /\ \E j \in 1..Len(curMembers) : member.id = curMembers[j].id
      THEN GetLobbyMembersLoop(members, i + 1, out)
    ELSE IF member.id \in DOMAIN players
      THEN GetLobbyMembersLoop(members, i + 1, Append(out, member.id))
    ELSE [yielded |-> out, threw |-> TRUE]
GetLobbyMembers ==
  GetLobbyMembersLoop(
    [i \in 1..Len(curMembers) |-> [curMembers[i] EXCEPT !.pending = FALSE]]
      \o [i \in 1..Len(pendMembers) |-> [pendMembers[i] EXCEPT !.pending = TRUE]],
    1, <<>>)

\* A name lookup that returns the first matching record walked.
FindSteamIDForNameFirstMatch(table, playerName, ord) ==
  LET seq == Iteration(DOMAIN table, ord)
      hits == {i \in 1..Len(seq) : table[seq[i]].status.name = playerName}
  IN IF hits = {} THEN 0 ELSE seq[CHOOSE i \in hits : \A j \in hits : i <= j]

\* WorldState::FindSteamIDForName: walk the table in the container's order,
\* keep the matching record with the latest status update; 0 is "nothing".
RECURSIVE FindSteamIDForNameLoop(_, _, _, _, _)
FindSteamIDForNameLoop(table, seq, i, playerName, acc) ==
  IF i > Len(seq) THEN acc.retVal
  ELSE LET data == table[seq[i]] IN
    IF data.status.name = playerName /\ data.lastStatusUpdate > acc.lastUpdated
      THEN FindSteamIDForNameLoop(table, seq, i + 1, playerName,
             [retVal |-> data.status.steamID, lastUpdated |-> data.lastStatusUpdate])
      ELSE FindSteamIDForNameLoop(table, seq, i + 1, playerName, acc)
FindSteamIDForName(table, playerName, ord) ==
  FindSteamIDForNameLoop(table, Iteration(DOMAIN table, ord), 1, playerName,
                         [retVal |-> 0, lastUpdated |-> 0])

\* WorldState::FindLobbyMemberTeam: the team of the first confirmed slot that
\* holds the identifier, else of the first pending slot that does, else none.
NoTeam == "none"
FirstTeam(vec, id) ==
  LET hits == {i \in 1..Len(vec) : vec[i].id = id}
  IN IF hits = {} THEN NoTeam ELSE vec[CHOOSE i \in hits : \A j \in hits : i <= j].team
FindLobbyMemberTeam(id) ==
  IF FirstTeam(curMembers, id) # NoTeam THEN FirstTeam(curMembers, id)
  ELSE FirstTeam(pendMembers, id)

\* OppositeTeam: the other of the two lobby sides; a value that is neither
\* side has no opposite.
OppositeTeam(team) ==
  IF team = "Invaders" THEN "Defenders"
  ELSE IF team = "Defenders" THEN "Invaders"
  ELSE NoTeam

\* A classification that answers Neither where the code throws.
GetTeamShareResultSilent(team0, team1) ==
  IF team0 = NoTeam THEN "Neither"
  ELSE IF team1 = NoTeam THEN "Neither"
  ELSE IF team0 = team1 THEN "SameTeams"
  ELSE IF team0 = OppositeTeam(team1) THEN "OppositeTeams"
  ELSE "Neither"

\* WorldState::GetTeamShareResult of two optional teams; "throw" is
\* std::runtime_error("Unexpected team value(s)").
GetTeamShareResult(team0, team1) ==
  IF team0 = NoTeam THEN "Neither"
  ELSE IF team1 = NoTeam THEN "Neither"
  ELSE IF team0 = team1 THEN "SameTeams"
  ELSE IF team0 = OppositeTeam(team1) THEN "OppositeTeams"
  ELSE "throw"

\* WorldState::GetTeamShareResult of two identifiers.
GetTeamShareResultIds(id0, id1) ==
  GetTeamShareResult(FindLobbyMemberTeam(id0), FindLobbyMemberTeam(id1))

\* ------------------------------------------------- console-line handlers
\* The frame of a handler that touches only the session model.
LineFrame ==
  UNCHANGED <<settings, inflight, friends, friendsFuture, lastFriendsUpdate, now,
              curTime>>

\* A reset that empties the player table and leaves the slot sequences alone.
ClearLobbyStateKeepsSlots ==
  /\ players' = <<>>
  /\ UNCHANGED <<curMembers, pendMembers>>

\* ClearLobbyState (and the reset of LobbyStatusFailed).
ClearLobbyState ==
  /\ curMembers' = <<>>
  /\ pendMembers' = <<>>
  /\ players' = <<>>

\* case LobbyHeader
LobbyHeader(memberCount, pendingCount) ==
  /\ curMembers' = Resize(curMembers, memberCount)
  /\ pendMembers' = Resize(pendMembers, pendingCount)
  /\ last' = [op |-> "LobbyHeader", members |-> memberCount, pending |-> pendingCount]
  /\ UNCHANGED <<players, queued, isInit, voteInProgress, worldLastStatus, hist>>
  /\ LineFrame

\* A LobbyStatusFailed that resets whatever the slot sequences hold.
LobbyStatusFailedAlways ==
  /\ ClearLobbyState
  /\ last' = [op |-> "LobbyStatusFailed", events |-> <<>>]
  /\ UNCHANGED <<queued, isInit, voteInProgress, worldLastStatus, hist>>
  /\ LineFrame

\* case LobbyStatusFailed (no listener is invoked: the step's events are none)
LobbyStatusFailed ==
  /\ IF curMembers # <<>> \/ pendMembers # <<>>
       THEN ClearLobbyState
       ELSE UNCHANGED <<curMembers, pendMembers, players>>
  /\ last' = [op |-> "LobbyStatusFailed", events |-> <<>>]
  /\ UNCHANGED <<queued, isInit, voteInProgress, worldLastStatus, hist>>
  /\ LineFrame

\* A LobbyChanged whose Created reset leaves the player table alone.
LobbyChangedKeepsPlayers(changeType) ==
  /\ curMembers' = IF changeType = "Created" THEN <<>> ELSE curMembers
  /\ pendMembers' = IF changeType = "Created" THEN <<>> ELSE pendMembers
  /\ players' = IF changeType \in {"Created", "Updated"}
                  THEN [x \in DOMAIN players |-> [players[x] EXCEPT !.clientIndex = 0]]
                  ELSE players
  /\ last' = [op |-> "LobbyChanged", changeType |-> changeType, dropped |-> {}]
  /\ UNCHANGED <<queued, isInit, voteInProgress, worldLastStatus, hist>>
  /\ UNCHANGED <<settings, inflight, friends, friendsFuture, lastFriendsUpdate, now,
                 curTime>>

\* case LobbyChanged (the step notes the identifiers whose records held data
\* when a Created reset dropped them).
Dirty(p) == p.kills > 0 \/ p.deaths > 0 \/ p.lastStatusUpdate > 0
            \/ p.summary # 0 \/ p.bans # 0
ChangeTypes == {"Created", "Updated", "Destroyed"}
LobbyChanged(changeType) ==
  LET cleared == changeType = "Created"
      kept == IF cleared THEN <<>> ELSE players
  IN /\ curMembers' = IF cleared THEN <<>> ELSE curMembers
     /\ pendMembers' = IF cleared THEN <<>> ELSE pendMembers
     /\ players' = IF changeType \in {"Created", "Updated"}
                     THEN [x \in DOMAIN kept |-> [kept[x] EXCEPT !.clientIndex = 0]]
                     ELSE kept
     /\ last' = [op |-> "LobbyChanged", changeType |-> changeType,
                 dropped |-> IF cleared
                               THEN {x \in DOMAIN players : Dirty(players[x])}
                               ELSE {}]
     /\ UNCHANGED <<queued, isInit, voteInProgress, worldLastStatus, hist>>
     /\ LineFrame

\* A slot write whose bound test admits the index one past the end.
WriteSlotPastEnd(vec, member) ==
  IF member.index < Len(vec) THEN [vec EXCEPT ![member.index + 1] = member]
  ELSE IF member.index = Len(vec) THEN Append(vec, member)
  ELSE vec

\* case LobbyMember
TFTeamOf(member) == IF member.team = "Defenders" THEN "Red" ELSE "Blue"
WriteSlot(vec, member) ==
  IF member.index < Len(vec) THEN [vec EXCEPT ![member.index + 1] = member] ELSE vec
LobbyMember(member) ==
  LET st1 == FindOrCreatePlayer(St, member.id)
  IN /\ pendMembers' = IF member.pending THEN WriteSlot(pendMembers, member)
                         ELSE pendMembers
     /\ curMembers' = IF member.pending THEN curMembers
                        ELSE WriteSlot(curMembers, member)
     /\ players' = [st1.players EXCEPT ![member.id].team = TFTeamOf(member)]
     /\ queued' = st1.queued
     /\ hist' = st1.hist
     /\ last' = [op |-> "LobbyMember", member |-> member,
                 created |-> member.id \notin DOMAIN players,
                 afterReset |-> IF last.op = "LobbyChanged" THEN last.dropped ELSE {}]
     /\ UNCHANGED <<isInit, voteInProgress, worldLastStatus>>
     /\ LineFrame

\* PlayerExtraData::GetActiveTime
GetActiveTime(p) ==
  IF p.status.state # "Active" THEN 0 ELSE p.lastStatusUpdate - p.activeBegin

\* A SetStatus that restarts the active interval at every active status.
SetStatusRestartsInterval(p, status, timestamp) ==
  [p EXCEPT !.activeBegin = IF status.state = "Active" THEN timestamp ELSE @,
            !.status = status,
            !.lastStatusUpdate = timestamp,
            !.lastPingUpdate = timestamp]

\* PlayerExtraData::SetStatus
SetStatus(p, status, timestamp) ==
  [p EXCEPT !.activeBegin = IF p.status.state # "Active" /\ status.state = "Active"
                              THEN timestamp ELSE @,
            !.status = status,
            !.lastStatusUpdate = timestamp,
            !.lastPingUpdate = timestamp]

\* A SetPing that also moves the last-status-update timestamp.
SetPingTouchesStatus(p, ping, timestamp) ==
  [p EXCEPT !.status.ping = ping, !.lastPingUpdate = timestamp,
            !.lastStatusUpdate = timestamp]

\* PlayerExtraData::SetPing
SetPing(p, ping, timestamp) ==
  [p EXCEPT !.status.ping = ping, !.lastPingUpdate = timestamp]

\* A jitter suppression that tests the delta on one side only.
PatchConnectionTimeOneSided(stored, newStatus) ==
  IF stored - newStatus.connTime < JitterWindow
    THEN [newStatus EXCEPT !.connTime = stored]
    ELSE newStatus

\* case PlayerStatus, the jitter suppression: a connection time within two
\* seconds of the stored one is replaced by the stored one.
PatchConnectionTime(stored, newStatus) ==
  LET delta == stored - newStatus.connTime
  IN IF delta < JitterWindow /\ delta > -JitterWindow
       THEN [newStatus EXCEPT !.connTime = stored]
       ELSE newStatus

\* case PlayerStatus
States == {"Active", "Spawning"}
Pings == {10, 20}
PlayerStatus(newStatus) ==
  LET id == newStatus.steamID
      st1 == FindOrCreatePlayer(St, id)
      playerData == st1.players[id]
      patched == PatchConnectionTime(playerData.status.connTime, newStatus)
      updated == SetStatus(playerData, patched, curTime)
  IN /\ players' = [st1.players EXCEPT ![id] = updated]
     /\ queued' = st1.queued
     /\ hist' = st1.hist
     /\ worldLastStatus' = Max(worldLastStatus, updated.lastStatusUpdate)
     /\ last' = [op |-> "PlayerStatus", status |-> newStatus,
                 created |-> id \notin DOMAIN players]
     /\ UNCHANGED <<curMembers, pendMembers, isInit, voteInProgress>>
     /\ LineFrame

\* case Ping
Ping(playerName, ping) ==
  \E ord \in Orders :
    LET found == FindSteamIDForName(players, playerName, ord)
        st1 == IF found # 0 THEN FindOrCreatePlayer(St, found) ELSE St
    IN /\ players' = IF found # 0
                       THEN [st1.players EXCEPT ![found] = SetPing(@, ping, curTime)]
                       ELSE players
       /\ queued' = st1.queued
       /\ hist' = st1.hist
       /\ last' = [op |-> "Ping", name |-> playerName, ping |-> ping, found |-> found]
       /\ UNCHANGED <<curMembers, pendMembers, isInit, voteInProgress, worldLastStatus>>
       /\ LineFrame

\* WorldState::FindPlayer: the identifier's record, 0 when there is none.
FindPlayer(id) == IF id \in DOMAIN players THEN id ELSE 0

\* case PlayerStatusShort
PlayerStatusShort(playerName, clientIndex) ==
  \E ord \in Orders :
    LET steamID == FindSteamIDForName(players, playerName, ord)
        st1 == IF steamID # 0 THEN FindOrCreatePlayer(St, steamID) ELSE St
    IN /\ players' = IF steamID # 0
                       THEN [st1.players EXCEPT ![steamID].clientIndex = clientIndex]
                       ELSE players
       /\ queued' = st1.queued
       /\ hist' = st1.hist
       /\ last' = [op |-> "PlayerStatusShort", name |-> playerName,
                   found |-> steamID]
       /\ UNCHANGED <<curMembers, pendMembers, isInit, voteInProgress, worldLastStatus>>
       /\ LineFrame

\* case Chat and case ServerDroppedPlayer: the listeners are told when the
\* name resolves to a record, and nothing is stored.
NamedEvent(lineType, playerName) ==
  \E ord \in Orders :
    LET sid == FindSteamIDForName(players, playerName, ord)
        player == IF sid # 0 THEN FindPlayer(sid) ELSE 0
    IN /\ last' = [op |-> lineType, name |-> playerName, found |-> sid,
                   events |-> IF player # 0 THEN <<player>> ELSE <<>>]
       /\ UNCHANGED <<players, queued, hist, curMembers, pendMembers, isInit,
                      voteInProgress, worldLastStatus>>
       /\ LineFrame
Chat(playerName) == NamedEvent("Chat", playerName)
ServerDroppedPlayer(playerName) == NamedEvent("ServerDroppedPlayer", playerName)

\* A kill notification that counts only when both names resolve.
ApplyKillBothOrNothing(st, attackerSteamID, victimSteamID, localSteamID) ==
  IF attackerSteamID # 0 /\ victimSteamID # 0
    THEN [st EXCEPT !.players[attackerSteamID].kills = @ + 1,
                    !.players[victimSteamID].deaths = @ + 1]
    ELSE st

\* case KillNotification, the two if-blocks. An identifier of 0 is the empty
\* optional, which compares unequal to every SteamID, the invalid one included.
ApplyKill(st, attackerSteamID, victimSteamID, localSteamID) ==
  LET st1 == IF attackerSteamID # 0
               THEN LET c == FindOrCreatePlayer(st, attackerSteamID)
                    IN [c EXCEPT !.players[attackerSteamID] =
                          [@ EXCEPT !.kills = @ + 1,
                                    !.localKills =
                                      IF victimSteamID # 0 /\ victimSteamID = localSteamID
                                        THEN @ + 1 ELSE @]]
               ELSE st
  IN IF victimSteamID # 0
       THEN LET c == FindOrCreatePlayer(st1, victimSteamID)
            IN [c EXCEPT !.players[victimSteamID] =
                  [@ EXCEPT !.deaths = @ + 1,
                            !.localDeaths =
                              IF attackerSteamID # 0 /\ attackerSteamID = localSteamID
                                THEN @ + 1 ELSE @]]
       ELSE st1

\* case KillNotification
KillNotification(attackerName, victimName) ==
  \E ordA \in Orders, ordV \in Orders :
    LET localSteamID == settings.localID
        attackerSteamID == FindSteamIDForName(players, attackerName, ordA)
        victimSteamID == FindSteamIDForName(players, victimName, ordV)
        st2 == ApplyKill(St, attackerSteamID, victimSteamID, localSteamID)
    IN /\ hist.nKills < MaxKills
       /\ players' = st2.players
       /\ queued' = st2.queued
       /\ hist' = [st2.hist EXCEPT !.nKills = @ + 1]
       /\ last' = [op |-> "KillNotification", attacker |-> attackerSteamID,
                   victim |-> victimSteamID]
       /\ UNCHANGED <<curMembers, pendMembers, isInit, voteInProgress, worldLastStatus>>
       /\ LineFrame

\* OnConfigExecLineParsed: the class configs, and the class each stands for.
ClassConfigs == {"scout.cfg", "sniper.cfg", "soldier.cfg", "demoman.cfg", "medic.cfg",
                 "heavyweapons.cfg", "pyro.cfg", "spy.cfg", "engineer.cfg"}
ConfigNames == ClassConfigs \cup {"autoexec.cfg"}
ClassOf(cfgName) ==
  CASE cfgName = "scout.cfg" -> "Scout"
    [] cfgName = "sniper.cfg" -> "Sniper"
    [] cfgName = "soldier.cfg" -> "Soldier"
    [] cfgName = "demoman.cfg" -> "Demoman"
    [] cfgName = "medic.cfg" -> "Medic"
    [] cfgName = "heavyweapons.cfg" -> "Heavy"
    [] cfgName = "pyro.cfg" -> "Pyro"
    [] cfgName = "spy.cfg" -> "Spy"
    [] cfgName = "engineer.cfg" -> "Engie"
    [] OTHER -> "Undefined"

\* InvokeEventListener(OnLocalPlayerInitialized, value) as an emitted event.
InitializedEvent(value) == [event |-> "OnLocalPlayerInitialized", value |-> value]

\* WorldState::OnConfigExecLineParsed (case ConfigExec)
OnConfigExecLineParsed(cfgName) ==
  /\ isInit' = IF cfgName \in ClassConfigs THEN TRUE ELSE isInit
  /\ last' = [op |-> "ConfigExec", cfgName |-> cfgName,
              events |-> IF cfgName \in ClassConfigs
                           THEN <<[event |-> "OnLocalPlayerSpawned",
                                   value |-> ClassOf(cfgName)]>>
                                \o (IF ~isInit THEN <<InitializedEvent(TRUE)>> ELSE <<>>)
                           ELSE <<>>]
  /\ hist' = [hist EXCEPT !.lastInit = IF cfgName \in ClassConfigs /\ ~isInit
                                         THEN <<TRUE>> ELSE @]
  /\ UNCHANGED <<players, curMembers, pendMembers, queued, voteInProgress,
                 worldLastStatus>>
  /\ LineFrame

\* A new-game record that emits the event whatever the flag was.
HostNewGameAlwaysEmits(lineType) ==
  /\ isInit' = FALSE
  /\ voteInProgress' = FALSE
  /\ last' = [op |-> lineType, events |-> <<InitializedEvent(FALSE)>>]
  /\ hist' = [hist EXCEPT !.lastInit = <<FALSE>>]
  /\ UNCHANGED <<players, curMembers, pendMembers, queued, worldLastStatus>>
  /\ LineFrame

\* case HostNewGame / Connecting / ClientReachedServerSpawn
NewGameTypes == {"HostNewGame", "Connecting", "ClientReachedServerSpawn"}
HostNewGame(lineType) ==
  /\ isInit' = FALSE
  /\ voteInProgress' = FALSE
  /\ last' = [op |-> lineType,
              events |-> IF isInit THEN <<InitializedEvent(FALSE)>> ELSE <<>>]
  /\ hist' = [hist EXCEPT !.lastInit = IF isInit THEN <<FALSE>> ELSE @]
  /\ UNCHANGED <<players, curMembers, pendMembers, queued, worldLastStatus>>
  /\ LineFrame

\* case SVC_UserMessage
UserMessageTypes == {"VoteStart", "VoteFailed", "VotePass", "Other"}
SVC_UserMessage(messageType) ==
  /\ voteInProgress' = IF messageType = "VoteStart" THEN TRUE
                       ELSE IF messageType \in {"VoteFailed", "VotePass"} THEN FALSE
                       ELSE voteInProgress
  /\ last' = [op |-> "SVC_UserMessage", messageType |-> messageType, events |-> <<>>]
  /\ UNCHANGED <<players, curMembers, pendMembers, queued, isInit, worldLastStatus,
                 hist>>
  /\ LineFrame

\* ---------------------------------------------------- console ingestion
\* A chunk is a sequence of characters; LF ends a line.
LF == "\n"
Chars == {"h", "m", "f", "x", LF}
Chunks == UNION {[1..n -> Chars] : n \in 0..MaxChunk}
Listeners == {"world", "ui"}

\* std::string_view::find('\n', from), positions counted from 0; npos is -1.
Npos == -1
Find(chunk, from) ==
  LET hits == {i \in 0..(Len(chunk) - 1) : i >= from /\ chunk[i + 1] = LF}
  IN IF hits = {} THEN Npos ELSE CHOOSE i \in hits : \A j \in hits : i <= j
\* std::string_view::substr(pos, n)
Substr(chunk, pos, n) == [k \in 1..n |-> chunk[pos + k]]

\* A split that also hands over what follows the last line feed.
AddConsoleOutputChunkWithTail(chunk) ==
  LET lfs == {i \in 1..Len(chunk) : chunk[i] = LF}
      ends == lfs \cup (IF Len(chunk) > 0 /\ chunk[Len(chunk)] # LF
                         THEN {Len(chunk) + 1} ELSE {})
      before(e) == IF {l \in lfs : l < e} = {} THEN 0
                   ELSE CHOOSE l \in lfs : l < e /\ \A m \in lfs : m < e => m <= l
      nth(n) == CHOOSE e \in ends : Cardinality({f \in ends : f < e}) = n - 1
  IN [n \in 1..Cardinality(ends) |-> Substr(chunk, before(nth(n)), nth(n) - before(nth(n)) - 1)]

\* WorldStateConLog::AddConsoleOutputChunk: the lines handed to
\* AddConsoleOutputLine, in order.
RECURSIVE ChunkLoop(_, _, _, _)
ChunkLoop(chunk, lastPos, i, lines) ==
  IF i = Npos THEN lines
  ELSE ChunkLoop(chunk, i + 1, Find(chunk, i + 1),
                 Append(lines, Substr(chunk, lastPos, i - lastPos)))
AddConsoleOutputChunk(chunk) == ChunkLoop(chunk, 0, Find(chunk, 0), <<>>)

\* IConsoleLine::ParseConsoleLine: the typed record of a line, or nothing.
NoRecord == [type |-> "none"]
ParseConsoleLine(line) ==
  IF line = <<"h">> THEN [type |-> "LobbyHeader", members |-> 1, pending |-> 1]
  ELSE IF line = <<"m">>
    THEN [type |-> "LobbyMember",
          member |-> [index |-> 0, id |-> 1, team |-> "Defenders", pending |-> FALSE]]
  ELSE IF line = <<"f">> THEN [type |-> "LobbyStatusFailed"]
  ELSE NoRecord

\* WorldState::OnConsoleLineParsed on the world w = [players, queued, hist,
\* curMembers, pendMembers], for the record types a chunk can carry.
OnConsoleLineParsed(w, parsed) ==
  IF parsed.type = "LobbyHeader"
    THEN [w EXCEPT !.curMembers = Resize(@, parsed.members),
                   !.pendMembers = Resize(@, parsed.pending)]
  ELSE IF parsed.type = "LobbyStatusFailed"
    THEN IF w.curMembers # <<>> \/ w.pendMembers # <<>>
           THEN [w EXCEPT !.curMembers = <<>>, !.pendMembers = <<>>, !.players = <<>>]
           ELSE w
  ELSE IF parsed.type = "LobbyMember"
    THEN LET w1 == FindOrCreatePlayer(w, parsed.member.id)
         IN [w1 EXCEPT !.curMembers = WriteSlot(@, parsed.member),
                       !.players[parsed.member.id].team = TFTeamOf(parsed.member)]
  ELSE w

\* The order in which the listener set is walked.
ListenerSeq(listeners, ord) ==
  SelectSeq(IF ord = "asc" THEN <<"world", "ui">> ELSE <<"ui", "world">>,
            LAMBDA l : l \in listeners)

\* WorldStateConLog::AddConsoleOutputLine: parse, then notify every listener
\* of the parsed record or of the raw text; the note lists who was told what.
AddConsoleOutputLine(w, line, listeners, ord) ==
  LET parsed == ParseConsoleLine(line)
      told == ListenerSeq(listeners, ord)
  IN IF parsed # NoRecord
       THEN [world |-> IF "world" \in listeners THEN OnConsoleLineParsed(w, parsed) ELSE w,
             note |-> [line |-> line, parsed |-> told, unparsed |-> <<>>]]
       ELSE [world |-> w,
             note |-> [line |-> line, parsed |-> <<>>, unparsed |-> told]]

\* The lines of a chunk handed over one after the other.
RECURSIVE Dispatch(_, _, _, _, _, _)
Dispatch(w, lines, i, listeners, ord, notes) ==
  IF i > Len(lines) THEN [world |-> w, notes |-> notes]
  ELSE LET r == AddConsoleOutputLine(w, lines[i], listeners, ord)
       IN Dispatch(r.world, lines, i + 1, listeners, ord, Append(notes, r.note))

\* A chunk arrives: the step notes the chunk, the listeners and the notes.
PushChunk(chunk, listeners) ==
  \E ord \in Orders :
    LET w == [players |-> players, queued |-> queued, hist |-> hist,
              curMembers |-> curMembers, pendMembers |-> pendMembers]
        r == Dispatch(w, AddConsoleOutputChunk(chunk), 1, listeners, ord, <<>>)
    IN /\ players' = r.world.players
       /\ queued' = r.world.queued
       /\ hist' = r.world.hist
       /\ curMembers' = r.world.curMembers
       /\ pendMembers' = r.world.pendMembers
       /\ last' = [op |-> "AddConsoleOutputChunk", chunk |-> chunk,
                   listeners |-> listeners, notes |-> r.notes]
       /\ UNCHANGED <<isInit, voteInProgress, worldLastStatus>>
       /\ LineFrame

\* ------------------------------------------------------------------- Init
InitHist ==
  [outstanding |-> [q \in QueueKinds |-> 0],
   lastIssue |-> 0,
   nKills |-> 0,
   lastInit |-> <<>>]

SettingsSet ==
  [client : BOOLEAN, key : BOOLEAN, lazy : BOOLEAN, localID : {1}]

\* The state WorldState::WorldState leaves, under settings s.
InitOthers(s) ==
  /\ settings = s
  /\ curMembers = <<>>
  /\ pendMembers = <<>>
  /\ inflight = [q \in QueueKinds |-> NoFuture]
  /\ friends = {}
  /\ friendsFuture = [status |-> "none", val |-> {}]
  /\ lastFriendsUpdate = 0
  /\ now = ClockStart
  /\ curTime = 1
  /\ isInit = FALSE
  /\ voteInProgress = FALSE
  /\ worldLastStatus = 0
  /\ last = Op("Init")
  /\ hist = InitHist
InitWith(s) ==
  /\ InitOthers(s)
  /\ players = <<>>
  /\ queued = [q \in QueueKinds |-> {}]

\* The machines' actions. An action that hands a record it builds to a
\* handler is written as a conjunction, which TLC evaluates afresh in every
\* state; the record is then never a value that the workers share.
\* ------------------------------------------- the enrichment-queue machine
\* Ticks, reads, completions, session resets and settings changes interleaved.
Init == \E s \in SettingsSet : InitWith(s)

Member(id) == [index |-> 0, id |-> id, team |-> "Defenders", pending |-> FALSE]

Tick == Update
Read == \E q \in QueueKinds, id \in Ids : ReadEnrichment(q, id)
Succeed == \E q \in QueueKinds, val \in Values :
             \E returned \in SUBSET Range(inflight[q].ids) : NetSucceed(q, returned, val)
Fail == \E q \in QueueKinds : NetFail(q)
Join == /\ \E id \in Ids : LobbyMember(Member(id))
Reset == LobbyChanged("Created")

Next == Tick \/ Read \/ Succeed \/ Fail \/ Join \/ Reset
Spec == Init /\ [][Next]_vars

\* C1: each enrichment queue has at most one batch request outstanding in
\* every reachable state, and a tick sends a batch for a queue only when that
\* queue had no request outstanding.
C1_OneInFlight ==
  /\ [](\A q \in QueueKinds : hist.outstanding[q] <= 1)
  /\ [][\A q \in QueueKinds :
          hist.outstanding'[q] > hist.outstanding[q] => inflight[q].status = "none"]_vars

\* C1 witness: a tick ran while a request was outstanding and identifiers were
\* pending, and sent nothing for that queue.
C1_Witness ==
  /\ last.op = "Update"
  /\ \E q \in QueueKinds :
       /\ inflight[q].status = "pending"
       /\ queued[q] # {}
       /\ last.batch[q] = NoBatch

C16_LazyRead ==
  /\ [][last'.op = "ReadEnrichment" =>
          LET q == last'.q
              id == last'.id
              slot == IF q = "summary" THEN players[id].summary ELSE players[id].bans
          IN /\ players' = players
             /\ inflight' = inflight
             /\ \A k \in QueueKinds \ {q} : queued'[k] = queued[k]
             /\ last'.result = slot
             /\ slot = 0 => queued'[q] = queued[q] \cup {id}
             /\ slot # 0 => queued'[q] = queued[q]]_vars
  /\ [](\A q \in QueueKinds, id \in DOMAIN players : ENABLED ReadEnrichment(q, id))

\* C16 witness: a slot was read empty while a request of its queue was in
\* flight; the identifier is pending.
C16_Witness ==
  /\ last.op = "ReadEnrichment"
  /\ last.result = 0
  /\ inflight[last.q].status = "pending"
  /\ last.id \in queued[last.q]
  /\ \E k \in QueueKinds : last.id \notin queued[k]

\* C20: a tick that merges a successful response leaves, for every returned
\* identifier, a record in the player table holding the fetched value, whether
\* or not a record existed (a session reset may have dropped it while the
\* request was in flight), and the identifier out of that queue's pending
\* set; a session reset changes neither the requests in flight nor the
\* pending sets.
C20_MergeAfterReset ==
  [][/\ last'.op = "Update" =>
          \A q \in QueueKinds :
            last'.done[q].outcome = "ok" =>
              \A x \in Range(last'.done[q].resp) :
                /\ x \in DOMAIN players'
                /\ (IF q = "summary" THEN players'[x].summary ELSE players'[x].bans)
                     = last'.done[q].val
                /\ x \notin queued'[q]
     /\ last'.op = "LobbyChanged" =>
          inflight' = inflight /\ queued' = queued]_vars

\* C20 witness: a tick merged an entry for an identifier that had no record
\* when the response was consumed; the record is back.
C20_Witness ==
  /\ last.op = "Update"
  /\ \E q \in QueueKinds :
       /\ last.done[q].outcome = "ok"
       /\ \E x \in Range(last.done[q].resp) :
            /\ x \notin DOMAIN last.done[q].slotsBefore
            /\ x \in DOMAIN players
            /\ x \notin queued[q]

\* ----------------------------------------------------- the batch machine
\* N records exist and a consumer has read the summary slot of each (with
\* lazy loading off, construction queued each in both queues); the API is
\* reachable, no request fails, every requested identifier is returned.
Enqueued(id) ==
  LET st1 == FindOrCreatePlayer([players |-> <<>>,
                                 queued |-> [q \in QueueKinds |-> {}]], id)
      st2 == [st1 EXCEPT !.players[id].team = "Red"]
  IN GetEnrichment(st2, "summary", id, st2.players[id])

BatchSizes == {0, 1, BatchCap, BatchCap + 1, 2 * BatchCap, MaxBatchIds}
InitBatch ==
  \E n \in BatchSizes, lazy \in BOOLEAN :
    /\ InitOthers([client |-> TRUE, key |-> TRUE, lazy |-> lazy, localID |-> 1])
    /\ players = [id \in 1..n |-> Enqueued(id).players[id]]
    /\ queued = [q \in QueueKinds |-> UNION {Enqueued(id).queued[q] : id \in 1..n}]

SucceedAll == \E q \in QueueKinds : NetSucceed(q, Range(inflight[q].ids), 1)

NextBatch == Tick \/ SucceedAll
SpecBatch == InitBatch /\ [][NextBatch]_vars
SpecBatchFair == SpecBatch /\ WF_vars(Tick) /\ WF_vars(SucceedAll)

\* C2: a batch a queue sends carries exactly min(100, size of the pending
\* set) identifiers, no two equal, all of them pending when it was sent;
\* sending removes nothing, so what exceeds 100 is still pending after the tick.
C2_BatchShape ==
  last.op = "Update" =>
    \A q \in QueueKinds :
      last.batch[q] # NoBatch =>
        LET b == last.batch[q] IN
          /\ Len(b.ids) = Min(BatchCap, Cardinality(b.before))
          /\ Cardinality(Range(b.ids)) = Len(b.ids)
          /\ Range(b.ids) \subseteq b.before
          /\ b.after = b.before
          /\ b.before \subseteq queued[q]

\* C2 witness: a batch of 100 was sent from a pending set larger than 100.
C2_Witness ==
  /\ last.op = "Update"
  /\ \E q \in QueueKinds :
       /\ Len(last.batch[q].ids) = BatchCap
       /\ Cardinality(last.batch[q].before) > BatchCap
       /\ Cardinality(queued[q] \ Range(last.batch[q].ids)) > 0

\* C3: with N identifiers pending, the API reachable and every request
\* answered in full, under repeated ticking a completed batch fills at most
\* 100 slots, every identifier that was pending is eventually resolved and
\* its pending set empty, and a batch never carries an identifier whose slot
\* an earlier merge filled.
Filled(table, q) == {x \in DOMAIN table : table[x][SlotOf(q)] # 0}
WasPending(q) == IF q = "summary" \/ ~settings.lazy THEN DOMAIN players ELSE {}
C3_AllResolved ==
  /\ [][\A q \in QueueKinds :
          /\ Cardinality(Filled(players', q)) - Cardinality(Filled(players, q)) <= BatchCap
          /\ (last'.op = "Update" /\ last'.batch[q] # NoBatch) =>
               Range(last'.batch[q].ids) \cap Filled(players, q) = {}]_vars
  /\ \A q \in QueueKinds : <>(queued[q] = {} /\ WasPending(q) \subseteq Filled(players, q))

\* C3 witness: more than two full batches of identifiers were pending and all
\* of them are resolved.
C3_Witness ==
  /\ Cardinality(DOMAIN players) > 2 * BatchCap
  /\ queued["summary"] = {}
  /\ Filled(players, "summary") = DOMAIN players

\* ------------------------------------------------- the friends-list machine
\* Ticks, the wall clock, completions of the fetch and changes of the client
\* and the credential interleaved.
InitFriends ==
  \E client \in BOOLEAN, key \in BOOLEAN :
    InitWith([client |-> client, key |-> key, lazy |-> TRUE, localID |-> 1])

Pass == AdvanceClock(1)
FriendsDone == \E outcome \in FriendsOutcomes, snapshot \in SUBSET PlayerIds :
                 NetFriends(outcome, snapshot)
Reconfigure == \E client \in BOOLEAN, key \in BOOLEAN :
                 SetSettings([settings EXCEPT !.client = client, !.key = key])

NextFriends == Tick \/ Pass \/ FriendsDone \/ Reconfigure
SpecFriends == InitFriends /\ [][NextFriends]_vars

\* C5: update() issues a friends-list fetch only with a client and a
\* credential configured, and more than 5 minutes after the previous fetch was
\* issued, whatever became of that fetch.
C5_FriendsThrottle ==
  [][(last'.op = "Update" /\ last'.friendsIssued) =>
       /\ settings.client /\ settings.key
       /\ hist.lastIssue # 0 => now - hist.lastIssue > FriendsInterval]_vars

\* C5 witness: a second fetch was issued, more than 5 minutes after the first.
C5_Witness ==
  /\ last.op = "Update"
  /\ last.friendsIssued
  /\ last.prevIssue # 0
  /\ now - last.prevIssue > FriendsInterval

InitLobby == InitWith([client |-> TRUE, key |-> TRUE, lazy |-> TRUE, localID |-> 1])

Header == \E m \in 0..MaxSlots, p \in 0..MaxSlots :
            m + p <= MaxSlots /\ LobbyHeader(m, p)
Seat == /\ \E index \in 0..MaxSlots, id \in PlayerIds, pending \in BOOLEAN :
          LobbyMember([Member(id) EXCEPT !.index = index, !.pending = pending])
Failed == LobbyStatusFailed
Changed == \E changeType \in ChangeTypes : LobbyChanged(changeType)

NextLobby == Header \/ Seat \/ Failed \/ Changed
SpecLobby == InitLobby /\ [][NextLobby]_vars

\* C8: a lobby-member record whose index is at or past the end of its target
\* sequence writes no slot and resizes nothing; one with an index in bounds
\* overwrites that slot of the sequence its pending flag selects, and nothing
\* else.
C8_SlotBounds ==
  [][last'.op = "LobbyMember" =>
       LET m == last'.member
           target == IF m.pending THEN pendMembers ELSE curMembers
           targetAfter == IF m.pending THEN pendMembers' ELSE curMembers'
           other == IF m.pending THEN curMembers ELSE pendMembers
           otherAfter == IF m.pending THEN curMembers' ELSE pendMembers'
       IN /\ otherAfter = other
          /\ Len(targetAfter) = Len(target)
          /\ \A i \in 1..Len(target) :
               targetAfter[i] = IF m.index < Len(target) /\ i = m.index + 1
                                  THEN m ELSE target[i]]_vars

\* C8 witness: after a header sized a sequence, a member record arrived whose
\* index is at or past its end, and the sequence holds an earlier write.
C8_Witness ==
  /\ last.op = "LobbyMember"
  /\ LET target == IF last.member.pending THEN pendMembers ELSE curMembers
     IN /\ Len(target) > 0
        /\ last.member.index >= Len(target)
        /\ \E i \in 1..Len(target) : IsValid(target[i])

\* C9: iterating the lobby members never yields the same identifier twice.
C9_NoDuplicateMembers ==
  LET yielded == GetLobbyMembers.yielded
  IN \A i \in 1..Len(yielded), j \in 1..Len(yielded) : i # j => yielded[i] # yielded[j]

\* C14: a lobby-status-failure record that finds both slot sequences empty
\* changes nothing (player table, sequences, flags, queues) and emits no
\* event; one that finds a sequence non-empty empties both sequences and the
\* player table.
C14_FailedNoOpWhenEmpty ==
  [][last'.op = "LobbyStatusFailed" =>
       /\ last'.events = <<>>
       /\ (curMembers = <<>> /\ pendMembers = <<>>) =>
            UNCHANGED <<settings, players, curMembers, pendMembers, queued, inflight,
                        friends, friendsFuture, lastFriendsUpdate, now, curTime,
                        isInit, voteInProgress, worldLastStatus, hist>>
       /\ (curMembers # <<>> \/ pendMembers # <<>>) =>
            /\ curMembers' = <<>>
            /\ pendMembers' = <<>>
            /\ DOMAIN players' = {}]_vars

\* C14 witness: a lobby-status-failure record arrived with both sequences
\* empty and records in the player table, which are still there.
C14_Witness ==
  /\ last.op = "LobbyStatusFailed"
  /\ curMembers = <<>> /\ pendMembers = <<>>
  /\ DOMAIN players # {}

\* --------------------------------------------------- the session machine
\* Status records, kill notifications, session resets and lobby members of
\* the identifiers 1..MaxIds interleaved.
InitSession ==
  \E lazy \in BOOLEAN :
    InitWith([client |-> TRUE, key |-> TRUE, lazy |-> lazy, localID |-> 1])

Status == /\ \E id \in Ids, name \in Names :
            PlayerStatus([steamID |-> id, name |-> name, state |-> "Active",
                          connTime |-> 0, ping |-> 10])
Kill == \E attackerName \in Names, victimName \in Names :
          KillNotification(attackerName, victimName)

NextSession == Status \/ Kill \/ Reset \/ Join
SpecSession == InitSession /\ [][NextSession]_vars

\* C7: a Created lobby change leaves the player table empty, and a lobby
\* member record that creates a record yields a fresh one: counters zero,
\* status snapshot, timestamps and enrichment slots as constructed, whatever
\* an earlier record of that identifier held.
C7_ResetGivesFreshRecord ==
  [][/\ (last'.op = "LobbyChanged" /\ last'.changeType = "Created") =>
         DOMAIN players' = {}
     /\ (last'.op = "LobbyMember" /\ last'.member.id \notin DOMAIN players) =>
         LET p == players'[last'.member.id]
         IN /\ p.kills = 0 /\ p.deaths = 0 /\ p.localKills = 0 /\ p.localDeaths = 0
            /\ p.status = NewStatus(last'.member.id)
            /\ p.lastStatusUpdate = 0 /\ p.lastPingUpdate = 0 /\ p.activeBegin = 0
            /\ p.clientIndex = 0
            /\ p.summary = 0 /\ p.bans = 0
            /\ p.playtime \in {"none", "pending"}]_vars

\* C7 witness: a reset dropped a record of X that held kills and a status,
\* and the lobby-member record that followed created X's record anew.
C7_Witness ==
  /\ last.op = "LobbyMember"
  /\ last.created
  /\ last.member.id \in last.afterReset
  /\ last.member.id \in DOMAIN players

\* ---------------------------------------------------- the status machine
\* Status and ping records of one identifier, and the log's clock.
InitStatus == InitWith([client |-> TRUE, key |-> TRUE, lazy |-> TRUE, localID |-> 1])

StatusIds == {1}
Report == /\ \E id \in StatusIds, state \in States, connTime \in 0..MaxConn :
            PlayerStatus([steamID |-> id, name |-> "a", state |-> state,
                          connTime |-> connTime, ping |-> 10])
PingLine == \E ping \in Pings : Ping("a", ping)
Clock == \E t \in 1..MaxTime : UpdateTimestamp(t)

NextStatus == Report \/ PingLine \/ Clock
SpecStatus == InitStatus /\ [][NextStatus]_vars

\* C10: a status record for an identifier with a record, whose connection
\* time is less than 2 seconds from the stored one in either direction,
\* leaves the stored connection time as it was; a difference of 2 seconds or
\* more replaces it; every other status field takes the new value.
C10_JitterSuppressed ==
  [][(last'.op = "PlayerStatus" /\ last'.status.steamID \in DOMAIN players) =>
       LET id == last'.status.steamID
           stored == players[id].status.connTime
           reading == last'.status.connTime
           after == players'[id].status
       IN /\ (stored - reading < JitterWindow /\ reading - stored < JitterWindow) =>
               after.connTime = stored
          /\ (stored - reading >= JitterWindow \/ reading - stored >= JitterWindow) =>
               after.connTime = reading
          /\ after = [last'.status EXCEPT !.connTime = after.connTime]]_vars

\* C10 witness: a status record read one second off the stored connection
\* time of an existing record, and the stored value stayed.
C10_Witness ==
  /\ last.op = "PlayerStatus"
  /\ ~last.created
  /\ LET d == players[last.status.steamID].status.connTime - last.status.connTime
     IN d = 1 \/ d = -1

\* ------------------------------------------------------ the name machine
\* Lobby members and status records of two identifiers under a moving log
\* clock, and name lookups.
InitNames == InitWith([client |-> TRUE, key |-> TRUE, lazy |-> TRUE, localID |-> 1])

LookupNames == Names \cup {""}
\* A caller of FindSteamIDForName: the step notes the name and the result.
Lookup == \E playerName \in LookupNames, ord \in Orders :
            /\ last' = [op |-> "FindSteamIDForName", name |-> playerName,
                        found |-> FindSteamIDForName(players, playerName, ord)]
            /\ UNCHANGED <<settings, players, curMembers, pendMembers, queued, inflight,
                           friends, friendsFuture, lastFriendsUpdate, now, curTime,
                           isInit, voteInProgress, worldLastStatus, hist>>
NameIds == {1, 2}
Enter == /\ \E id \in NameIds : LobbyMember(Member(id))
Named == /\ \E id \in NameIds, name \in Names :
           PlayerStatus([steamID |-> id, name |-> name, state |-> "Spawning",
                         connTime |-> 0, ping |-> 10])

NextNames == Enter \/ Named \/ Clock \/ Lookup
SpecNames == InitNames /\ [][NextNames]_vars

Matching(playerName) == {x \in DOMAIN players : players[x].status.name = playerName}

\* C11 as stated: the lookup returns the matching record whose last status
\* update is strictly later than that of every other matching record, and
\* nothing exactly when no record has the name.
C11_StrictlyLatest ==
  last.op = "FindSteamIDForName" =>
    /\ (last.found = 0) <=> (Matching(last.name) = {})
    /\ last.found # 0 =>
         /\ last.found \in Matching(last.name)
         /\ \A x \in Matching(last.name) \ {last.found} :
              players[last.found].lastStatusUpdate > players[x].lastStatusUpdate

\* C11: the lookup returns a matching record whose last status update is after
\* the epoch and at least as late as that of every matching record (so the
\* strictly latest one when there is one; among equals, whichever the walk
\* meets first), and nothing exactly when no matching record has a status
\* update after the epoch.
C11_LatestMatch ==
  last.op = "FindSteamIDForName" =>
    LET dated == {x \in Matching(last.name) : players[x].lastStatusUpdate > 0}
    IN /\ (last.found = 0) <=> (dated = {})
       /\ last.found # 0 =>
            /\ last.found \in dated
            /\ \A x \in Matching(last.name) :
                 players[last.found].lastStatusUpdate >= players[x].lastStatusUpdate

\* C11 witness: two records carry the name looked up, with different status
\* times, and the lookup returned the later one.
C11_Witness ==
  /\ last.op = "FindSteamIDForName"
  /\ last.found # 0
  /\ \E x \in Matching(last.name) :
       players[x].lastStatusUpdate < players[last.found].lastStatusUpdate

\* ------------------------------------------------------ the team machine
\* A lobby of at most two confirmed slots and one pending slot, members of two
\* identifiers on either side, and team-relationship queries.
InitTeams == InitWith([client |-> TRUE, key |-> TRUE, lazy |-> TRUE, localID |-> 1])

TeamIds == {1, 2}
TeamValues == Teams \cup {"Spectator"}
Sized == \E m \in {0, 1, 2}, p \in {0, 1} : LobbyHeader(m, p)
Sided == /\ \E index \in {0, 1}, id \in TeamIds, team \in Teams, pending \in BOOLEAN :
           LobbyMember([index |-> index, id |-> id, team |-> team, pending |-> pending])
QueryFrame ==
  UNCHANGED <<settings, players, curMembers, pendMembers, queued, inflight, friends,
              friendsFuture, lastFriendsUpdate, now, curTime, isInit, voteInProgress,
              worldLastStatus, hist>>
\* Callers of GetTeamShareResult: the step notes the arguments and the result.
ClassifyTeams == \E team0 \in TeamValues \cup {NoTeam}, team1 \in TeamValues \cup {NoTeam} :
                   /\ last' = [op |-> "GetTeamShareResult", team0 |-> team0,
                               team1 |-> team1,
                               result |-> GetTeamShareResult(team0, team1)]
                   /\ QueryFrame
ClassifyIds == \E id0 \in TeamIds, id1 \in TeamIds :
                 /\ last' = [op |-> "GetTeamShareResultIds", id0 |-> id0, id1 |-> id1,
                             result |-> GetTeamShareResultIds(id0, id1)]
                 /\ QueryFrame

NextTeams == Sized \/ Sided \/ ClassifyTeams \/ ClassifyIds
SpecTeams == InitTeams /\ [][NextTeams]_vars

\* The team an identifier has in the lobby: that of a confirmed slot holding
\* it if there is one, else that of a pending slot holding it, else none.
SlotTeam(id) ==
  IF \E i \in 1..Len(curMembers) : curMembers[i].id = id
    THEN curMembers[CHOOSE i \in 1..Len(curMembers) :
                      /\ curMembers[i].id = id
                      /\ \A j \in 1..(i - 1) : curMembers[j].id # id].team
  ELSE IF \E i \in 1..Len(pendMembers) : pendMembers[i].id = id
    THEN pendMembers[CHOOSE i \in 1..Len(pendMembers) :
                       /\ pendMembers[i].id = id
                       /\ \A j \in 1..(i - 1) : pendMembers[j].id # id].team
  ELSE NoTeam
Classified(team0, team1, result) ==
  /\ (team0 = NoTeam \/ team1 = NoTeam) => result = "Neither"
  /\ (team0 # NoTeam /\ team1 # NoTeam /\ team0 = team1) => result = "SameTeams"
  /\ (team0 # NoTeam /\ team1 # NoTeam /\ {team0, team1} = {"Invaders", "Defenders"}) =>
       result = "OppositeTeams"
  /\ (team0 # NoTeam /\ team1 # NoTeam /\ team0 # team1
        /\ {team0, team1} # {"Invaders", "Defenders"}) => result = "throw"

\* C12: two optional teams classify as Neither when either is absent, as
\* SameTeams when both are present and equal, as OppositeTeams when they are
\* the two opposing sides, and any other pair throws; two identifiers are
\* classified by the teams of their lobby slots, a confirmed slot before a
\* pending one.
C12_TeamShare ==
  /\ last.op = "GetTeamShareResult" => Classified(last.team0, last.team1, last.result)
  /\ last.op = "GetTeamShareResultIds" =>
       Classified(SlotTeam(last.id0), SlotTeam(last.id1), last.result)

\* C12 witness: an identifier sits in a confirmed slot and in a pending slot
\* on different sides, and was classified against another identifier by its
\* confirmed side.
C12_Witness ==
  /\ last.op = "GetTeamShareResultIds"
  /\ last.id0 # last.id1
  /\ \E i \in 1..Len(curMembers) : curMembers[i].id = last.id0
  /\ \E i \in 1..Len(pendMembers) :
       pendMembers[i].id = last.id0 /\ pendMembers[i].team # SlotTeam(last.id0)
  /\ last.result \in {"SameTeams", "OppositeTeams"}

\* ------------------------------------------------------ the kill machine
\* Status records naming two identifiers, and kill notifications; the local
\* player's identifier is configured (1) or not (0, the invalid identifier).
InitKills ==
  \E localID \in {0, 1} :
    InitWith([client |-> TRUE, key |-> TRUE, lazy |-> TRUE, localID |-> localID])

NextKills == Named \/ Kill
SpecKills == InitKills /\ [][NextKills]_vars

Scores(p) == <<p.kills, p.deaths, p.localKills, p.localDeaths>>

\* C13: in a kill notification whose attacker resolves and whose victim does
\* not, the attacker's kill counter rises by one and nothing else in the
\* player table changes; with only the victim resolved, its death counter
\* rises by one and nothing else changes; with neither, nothing changes.
C13_IndependentResolution ==
  [][last'.op = "KillNotification" =>
       LET a == last'.attacker
           v == last'.victim
       IN /\ (a # 0 /\ v = 0) =>
               /\ DOMAIN players' = DOMAIN players
               /\ players'[a].kills = players[a].kills + 1
               /\ \A x \in DOMAIN players :
                    /\ players'[x].deaths = players[x].deaths
                    /\ players'[x].localKills = players[x].localKills
                    /\ players'[x].localDeaths = players[x].localDeaths
                    /\ x # a => players'[x] = players[x]
          /\ (a = 0 /\ v # 0) =>
               /\ DOMAIN players' = DOMAIN players
               /\ players'[v].deaths = players[v].deaths + 1
               /\ \A x \in DOMAIN players :
                    /\ players'[x].kills = players[x].kills
                    /\ players'[x].localKills = players[x].localKills
                    /\ players'[x].localDeaths = players[x].localDeaths
                    /\ x # v => players'[x] = players[x]
          /\ (a = 0 /\ v = 0) => players' = players]_vars

\* C13 witness: a kill notification resolved the attacker only, with no local
\* identifier configured, and the attacker has the kill.
C13_Witness ==
  /\ last.op = "KillNotification"
  /\ last.attacker # 0
  /\ last.victim = 0
  /\ settings.localID = 0
  /\ Scores(players[last.attacker]) = <<1, 0, 0, 0>>

\* -------------------------------------------------- the identity machine
\* Two identifiers: lobby members, status and ping records, session resets,
\* reads of the summary slot, ticks and completed requests interleaved.
InitIdentity == InitWith([client |-> TRUE, key |-> TRUE, lazy |-> TRUE, localID |-> 1])

Applied == /\ \E id \in NameIds :
             PlayerStatus([steamID |-> id, name |-> "a", state |-> "Active",
                           connTime |-> 0, ping |-> 10])

ReadSummary == \E id \in NameIds : ReadEnrichment("summary", id)

NextIdentity == Enter \/ Applied \/ PingLine \/ Reset \/ ReadSummary \/ Tick \/ Succeed
SpecIdentity == InitIdentity /\ [][NextIdentity]_vars

\* C15: every record of the player table carries, in its status snapshot, the
\* identifier it is keyed by.
C15_IdentifierIsKey ==
  \A x \in DOMAIN players : players[x].status.steamID = x

\* C15 witness: the record of identifier 2 has had a status applied and an
\* enrichment response merged.
C15_Witness ==
  /\ 2 \in DOMAIN players
  /\ players[2].lastStatusUpdate > 0
  /\ players[2].summary # 0
  /\ players[2].status.name # ""

\* ---------------------------------------------------- the chunk machine
\* A chunk and a listener set are drawn; the chunk is pushed once.
InitChunks ==
  /\ InitOthers([client |-> TRUE, key |-> TRUE, lazy |-> TRUE, localID |-> 1])
  /\ players = <<>>
  /\ queued = [q \in QueueKinds |-> {}]

Push == \E chunk \in Chunks, listeners \in SUBSET Listeners :
          /\ last.op = "Init"
          /\ "world" \in listeners
          /\ PushChunk(chunk, listeners)

NextChunks == Push
SpecChunks == InitChunks /\ [][NextChunks]_vars

\* The line feeds of a chunk and the segment each of them ends.
LineFeeds(chunk) == {i \in 1..Len(chunk) : chunk[i] = LF}
SegmentStart(chunk, e) ==
  IF \E l \in LineFeeds(chunk) : l < e
    THEN 1 + CHOOSE l \in LineFeeds(chunk) :
               l < e /\ \A m \in LineFeeds(chunk) : m < e => m <= l
    ELSE 1
NthLineFeed(chunk, n) ==
  CHOOSE e \in LineFeeds(chunk) : Cardinality({f \in LineFeeds(chunk) : f < e}) = n - 1
Segment(chunk, n) ==
  LET e == NthLineFeed(chunk, n)
      b == SegmentStart(chunk, e)
  IN [k \in 1..(e - b) |-> chunk[b + k - 1]]
OnceEach(told, listeners) ==
  Len(told) = Cardinality(listeners) /\ Range(told) = listeners

\* C17: a pushed chunk dispatches one line per line feed, the n-th being the
\* segment the n-th line feed ends; for each line every listener is told
\* exactly once, of the parsed record if the line parses and of the raw text
\* otherwise.
C17_ChunkDispatch ==
  last.op = "AddConsoleOutputChunk" =>
    /\ Len(last.notes) = Cardinality(LineFeeds(last.chunk))
    /\ \A n \in 1..Len(last.notes) :
         /\ last.notes[n].line = Segment(last.chunk, n)
         /\ IF ParseConsoleLine(last.notes[n].line) # NoRecord
              THEN /\ OnceEach(last.notes[n].parsed, last.listeners)
                   /\ last.notes[n].unparsed = <<>>
              ELSE /\ OnceEach(last.notes[n].unparsed, last.listeners)
                   /\ last.notes[n].parsed = <<>>

\* C17 witness: a chunk with two line feeds and text after the second was
\* pushed to two listeners; its first line parsed and its second did not.
C17_Witness ==
  /\ last.op = "AddConsoleOutputChunk"
  /\ last.listeners = Listeners
  /\ Len(last.notes) = 2
  /\ last.chunk[Len(last.chunk)] # LF
  /\ last.notes[1].parsed # <<>>
  /\ last.notes[2].unparsed # <<>>

\* ------------------------------------------- the initialization machine
\* Config-exec, new-game and user-message records under a moving log clock.
InitLocal == InitWith([client |-> TRUE, key |-> TRUE, lazy |-> TRUE, localID |-> 1])

Exec == \E cfgName \in ConfigNames : OnConfigExecLineParsed(cfgName)
NewGame == \E lineType \in NewGameTypes : HostNewGame(lineType)
Message == \E messageType \in UserMessageTypes : SVC_UserMessage(messageType)

NextLocal == Exec \/ NewGame \/ Message \/ Clock
SpecLocal == InitLocal /\ [][NextLocal]_vars

\* The values of the 'initialization changed' events a step emitted.
InitializedValues(step) ==
  IF "events" \in DOMAIN step
    THEN LET evs == SelectSeq(step.events,
                              LAMBDA e : e.event = "OnLocalPlayerInitialized")
         IN [i \in 1..Len(evs) |-> evs[i].value]
    ELSE <<>>

\* C18: a step emits an 'initialization changed' event exactly when it changes
\* the local-player-initialized flag, once, carrying the new value: a class
\* config-exec emits true only from false, a new-game record false only from
\* true; an emitted value differs from the one emitted before it, and the
\* last emitted value is the flag.
C18_InitEvents ==
  /\ [][/\ InitializedValues(last') = IF isInit' # isInit THEN <<isInit'>> ELSE <<>>
        /\ (last'.op = "ConfigExec" /\ InitializedValues(last') # <<>>) =>
             ~isInit /\ last'.cfgName \in ClassConfigs /\ isInit'
        /\ (last'.op \in NewGameTypes /\ InitializedValues(last') # <<>>) =>
             isInit /\ ~isInit'
        /\ InitializedValues(last') # <<>> =>
             /\ hist.lastInit # InitializedValues(last')
             /\ hist'.lastInit = InitializedValues(last')]_vars
  /\ [](hist.lastInit # <<>> => hist.lastInit = <<isInit>>)

\* C18 witness: a new-game record emitted false after a class config had
\* emitted true, and a further new-game record emitted nothing.
C18_Witness ==
  /\ last.op \in NewGameTypes
  /\ last.events = <<>>
  /\ hist.lastInit = <<FALSE>>
  /\ ~isInit

\* C19: after a status application the record's time active is 0 if the new
\* state is not active, and 0 if the application moved it into the active
\* state; an application that keeps it active lengthens the time active by
\* the time since the previous application (the interval start stays); no
\* other record kind changes a record's time active.
C19_ActiveTime ==
  [][/\ last'.op = "PlayerStatus" =>
          LET id == last'.status.steamID
              wasActive == id \in DOMAIN players /\ players[id].status.state = "Active"
          IN /\ last'.status.state # "Active" => GetActiveTime(players'[id]) = 0
             /\ (last'.status.state = "Active" /\ ~wasActive) =>
                  /\ GetActiveTime(players'[id]) = 0
                  /\ players'[id].lastStatusUpdate = curTime
             /\ (last'.status.state = "Active" /\ wasActive) =>
                  GetActiveTime(players'[id]) - GetActiveTime(players[id])
                    = curTime - players[id].lastStatusUpdate
     /\ last'.op # "PlayerStatus" =>
          \A id \in DOMAIN players :
            id \in DOMAIN players' /\ GetActiveTime(players'[id]) = GetActiveTime(players[id])
    ]_vars

\* C19 witness: a status kept a record active that had become active at an
\* earlier timestamp: its time active is positive.
C19_Witness ==
  /\ last.op = "PlayerStatus"
  /\ ~last.created
  /\ last.status.state = "Active"
  /\ GetActiveTime(players[last.status.steamID]) > 0

\* ---------------------------------------------------- the roster machine
\* Eager loading, at most one confirmed and one pending slot: lobby headers,
\* members of identifier 2, failures, resets, status records of identifier
\* 1, ticks and completed requests interleaved.
InitRoster == InitWith([client |-> TRUE, key |-> TRUE, lazy |-> FALSE, localID |-> 1])

Roomed == \E m \in {0, 1}, p \in {0, 1} : LobbyHeader(m, p)
SeatedIds == {2}
Seated == /\ \E id \in SeatedIds, pending \in BOOLEAN :
            LobbyMember([Member(id) EXCEPT !.pending = pending])
Listed == /\ \E id \in StatusIds :
            PlayerStatus([steamID |-> id, name |-> "a", state |-> "Active",
                          connTime |-> 0, ping |-> 10])

NextRoster == Roomed \/ Seated \/ Failed \/ Reset \/ Listed \/ Tick \/ Succeed
SpecRoster == InitRoster /\ [][NextRoster]_vars

\* C21: every valid slot of the confirmed and of the pending sequence names
\* an identifier that has a record in the player table, so the walk over the
\* lobby members never ends with "Missing player for lobby member!".
C21_SlotsHaveRecords ==
  /\ \A i \in 1..Len(curMembers) :
       IsValid(curMembers[i]) => curMembers[i].id \in DOMAIN players
  /\ \A i \in 1..Len(pendMembers) :
       IsValid(pendMembers[i]) => pendMembers[i].id \in DOMAIN players
  /\ ~GetLobbyMembers.threw

\* C21 witness: a tick merged a response for an identifier whose record a
\* reset had dropped, while both sequences hold valid slots, and the walk
\* yields members.
C21_Witness ==
  /\ last.op = "Update"
  /\ \E q \in QueueKinds :
       /\ last.done[q].outcome = "ok"
       /\ \E x \in Range(last.done[q].resp) : x \notin DOMAIN last.done[q].slotsBefore
  /\ \E i \in 1..Len(curMembers) : IsValid(curMembers[i])
  /\ \E i \in 1..Len(pendMembers) : IsValid(pendMembers[i])
  /\ GetLobbyMembers.yielded # <<>>

\* ----------------------------------------------------- the frame machine
\* One identifier under lazy loading: lobby members, status, ping, short
\* status, kill, chat and player-dropped records, session resets, reads of
\* the summary slot, ticks, completed requests and the log's clock.
InitFrame == InitWith([client |-> TRUE, key |-> TRUE, lazy |-> TRUE, localID |-> 1])

Joined == /\ \E id \in StatusIds : LobbyMember(Member(id))
Stated == /\ \E id \in StatusIds :
            PlayerStatus([steamID |-> id, name |-> "a", state |-> "Active",
                          connTime |-> 0, ping |-> 10])
Asked == ReadEnrichment("summary", 1)
Short == PlayerStatusShort("a", 1)
Chatted == Chat("a")
Dropped == ServerDroppedPlayer("a")
Pinged == Ping("a", 20)
Slain == KillNotification("a", "b")
Later == \E t \in {1, 2} : UpdateTimestamp(t)

NextFrame == Joined \/ Stated \/ Pinged \/ Short \/ Slain \/ Chatted \/ Dropped
             \/ Reset \/ Asked \/ Tick \/ Succeed \/ Later
SpecFrame == InitFrame /\ [][NextFrame]_vars

\* C22: ping, short-status, kill-notification, chat and player-dropped
\* records leave the set of identifiers in the player table as it was; a step
\* that adds a record is a lobby-member record, a full status record or a
\* tick that merges a successful response holding the identifier; a ping
\* record changes, in the record it resolves to, the ping and the
\* last-ping-update timestamp only, and no other record.
NameRecords == {"Ping", "PlayerStatusShort", "KillNotification", "Chat",
                "ServerDroppedPlayer"}
C22_FrameOfNameRecords ==
  [][/\ last'.op \in NameRecords => DOMAIN players' = DOMAIN players
     /\ \A x \in DOMAIN players' \ DOMAIN players :
          \/ last'.op = "LobbyMember" /\ last'.member.id = x
          \/ last'.op = "PlayerStatus" /\ last'.status.steamID = x
          \/ /\ last'.op = "Update"
             /\ \E q \in QueueKinds : /\ last'.done[q].outcome = "ok"
                                      /\ x \in Range(last'.done[q].resp)
     /\ last'.op = "Ping" =>
          \A x \in DOMAIN players :
            /\ players'[x].status.name = players[x].status.name
            /\ players'[x].status.state = players[x].status.state
            /\ players'[x].status.connTime = players[x].status.connTime
            /\ players'[x].lastStatusUpdate = players[x].lastStatusUpdate
            /\ players'[x] =
                 IF x = last'.found
                   THEN [players[x] EXCEPT !.status.ping = last'.ping,
                                           !.lastPingUpdate = curTime]
                   ELSE players[x]]_vars

\* C22 witness: a ping record resolved its name to a record and moved the
\* ping and the last-ping-update timestamp past the last status update.
C22_Witness ==
  /\ last.op = "Ping"
  /\ last.found \in DOMAIN players
  /\ players[last.found].status.ping = last.ping
  /\ players[last.found].lastPingUpdate > players[last.found].lastStatusUpdate
  /\ players[last.found].status.name = last.name

\* -------------------------------------------------- the playtime machine
\* One identifier: lobby members, session resets, reads of the playtime
\* slot, completions of the playtime request and settings changes.
InitPlaytime ==
  \E client \in BOOLEAN, key \in BOOLEAN, lazy \in BOOLEAN :
    InitWith([client |-> client, key |-> key, lazy |-> lazy, localID |-> 1])

AskedPlaytime == ReadPlaytime(1)
PlaytimeDone == \E outcome \in PlaytimeOutcomes : NetPlaytime(1, outcome)

NextPlaytime == Joined \/ Reset \/ AskedPlaytime \/ PlaytimeDone \/ Reconfigure
SpecPlaytime == InitPlaytime /\ [][NextPlaytime]_vars

\* C23: a record's playtime request is issued at most once while the record
\* lives: by the first read (the constructor's, under eager loading) made
\* with a credential and a client configured. A read without one of them
\* issues nothing and leaves the record eligible. A read that finds the
\* request failed catches the failure and returns "not yet available"; from
\* then on the record stays fetched with no request, every read of it returns
\* "not yet available", and nothing is issued again.
C23_PlaytimeOnce ==
  [][LET configured == settings.key /\ settings.client
     IN /\ \A x \in DOMAIN players' : players'[x].playtimeRequests <= 1
        /\ \A x \in DOMAIN players' \ DOMAIN players :
             players'[x].playtimeRequests = IF ~settings.lazy /\ configured THEN 1 ELSE 0
        /\ \A x \in DOMAIN players \cap DOMAIN players' :
             LET p == players[x]
                 p2 == players'[x]
                 read == last'.op = "GetTF2Playtime" /\ last'.id = x
             IN /\ p2.playtimeRequests # p.playtimeRequests =>
                     read /\ configured /\ p.playtimeRequests = 0
                /\ (read /\ configured /\ p.playtimeRequests = 0) =>
                     p2.playtimeRequests = 1 /\ p2.playtimeFetched
                /\ (read /\ ~configured) =>
                     /\ p2.playtimeRequests = p.playtimeRequests
                     /\ p2.playtimeFetched = p.playtimeFetched
                /\ (read /\ p.playtime = "fail") =>
                     /\ last'.caught /\ last'.result = 0
                     /\ p2.playtimeFetched /\ p2.playtime = "none"
                /\ (p.playtimeFetched /\ p.playtime = "none") =>
                     /\ p2.playtimeFetched /\ p2.playtime = "none"
                     /\ p2.playtimeRequests = p.playtimeRequests
                     /\ read => last'.result = 0 /\ ~last'.caught
    ]_vars

\* C23 witness: with a credential and a client configured, a read of a record
\* whose request had failed, and whose failure an earlier read had caught,
\* returned "not yet available" and issued nothing.
C23_Witness ==
  /\ last.op = "GetTF2Playtime"
  /\ last.result = 0 /\ ~last.caught
  /\ settings.key /\ settings.client
  /\ players[last.id].playtimeFetched
  /\ players[last.id].playtime = "none"
  /\ players[last.id].playtimeRequests = 1

====
